---- MODULE Spec2Model ----
(***************************************************************************)
(* A model of erizocosmico/datos: the Datetime JSON decoder (datetime.go), *)
(* the catalog client's dataset endpoints (client.go) and the command-line *)
(* tool's pagination loop (cmd/datos/main.go).                             *)
(*                                                                         *)
(* Strings are sequences of runes; a rune is a one-character string.       *)
(***************************************************************************)
EXTENDS Integers, Sequences, FiniteSets, TLC

VARIABLES
    b,        \* per call: the raw input handed to UnmarshalJSON
    pos,      \* per call: runes consumed from the bufio.Reader
    pc,       \* per call: index of the next step, LookupPC or DonePC
    fld,      \* per call: the locals mo, day, y, h, m, s
    err,      \* per call: the error returned (Nil while running / on success)
    d,        \* per call: the receiver's Time
    calls,    \* per call slot: decodes started so far
    months,   \* the package-level month table
    req,      \* the last request the client issued
    resp,     \* the items the last client call returned
    fa        \* findAllDatasets: its arguments, locals and return value

vars == <<b, pos, pc, fld, err, d, calls, months, req, resp, fa>>

----------------------------------------------------------------------------
(* Bounds of the model *)

\* decodes a single receiver goes through, one after the other
MaxCalls == 2

----------------------------------------------------------------------------
(* Runes *)

\* the zero rune left in a slot of make([]rune, n) that was never written
NUL == "NUL"
Quote == "\""

DigitChars == <<"0", "1", "2", "3", "4", "5", "6", "7", "8", "9">>

IsDigit(c) == \E i \in 1..10 : DigitChars[i] = c

DigitVal(c) == (CHOOSE i \in 1..10 : DigitChars[i] = c) - 1

\* unicode.IsSpace, on the white space the model's inputs use
IsSpace(c) == c \in {" ", "\t", "\n", "\r"}

Range(s) == {s[i] : i \in 1..Len(s)}

----------------------------------------------------------------------------
(* time.Date and the accessors of time.Time.  A Time is the day count      *)
(* since the absolute epoch, the second of that day and the nanosecond.    *)

\* time.absoluteZeroYear is 1 - 400 * 730692556; the model keeps the same
\* residue modulo 400 with a nearer epoch, so that day counts fit TLC's
\* integers.
AbsoluteZeroYear == 1 - 400 * 4

DaysPer400Years == 365 * 400 + 97
DaysPer100Years == 365 * 100 + 24
DaysPer4Years == 365 * 4 + 1

\* time.daysBefore, indexed from 1
DaysBefore == <<0, 31, 59, 90, 120, 151, 181, 212, 243, 273, 304, 334, 365>>

IsLeap(year) == year % 4 = 0 /\ (year % 100 # 0 \/ year % 400 = 0)

DaysSinceEpoch(year) ==
    LET y0 == year - AbsoluteZeroYear
        n400 == y0 \div 400
        y1 == y0 - 400 * n400
        n100 == y1 \div 100
        y2 == y1 - 100 * n100
        n4 == y2 \div 4
        y3 == y2 - 4 * n4
    IN  DaysPer400Years * n400 + DaysPer100Years * n100
            + DaysPer4Years * n4 + 365 * y3

\* time.norm: hi, lo with lo brought into [0, base)
NormHi(hi, lo, base) == hi + (lo \div base)
NormLo(lo, base) == lo % base

Date(year, month, day, hour, min, sec, nsec) ==
    LET m0 == month - 1
        year1 == NormHi(year, m0, 12)
        month1 == NormLo(m0, 12) + 1
        sec1 == NormHi(sec, nsec, 1000000000)
        nsec1 == NormLo(nsec, 1000000000)
        min1 == NormHi(min, sec1, 60)
        sec2 == NormLo(sec1, 60)
        hour1 == NormHi(hour, min1, 60)
        min2 == NormLo(min1, 60)
        day1 == NormHi(day, hour1, 24)
        hour2 == NormLo(hour1, 24)
        dd == DaysSinceEpoch(year1) + DaysBefore[month1]
                + (IF IsLeap(year1) /\ month1 >= 3 THEN 1 ELSE 0)
                + (day1 - 1)
    IN  [days |-> dd,
         secs |-> hour2 * 3600 + min2 * 60 + sec2,
         nsec |-> nsec1]

\* time.absDate: the civil date of a Time
AbsDate(t) ==
    LET d0 == t.days
        n400 == d0 \div DaysPer400Years
        d1 == d0 - DaysPer400Years * n400
        n100a == d1 \div DaysPer100Years
        n100 == n100a - (n100a \div 4)
        d2 == d1 - DaysPer100Years * n100
        n4 == d2 \div DaysPer4Years
        d3 == d2 - DaysPer4Years * n4
        n1a == d3 \div 365
        n1 == n1a - (n1a \div 4)
        yday == d3 - 365 * n1
        year == 400 * n400 + 100 * n100 + 4 * n4 + n1 + AbsoluteZeroYear
        leap == IsLeap(year)
        day == IF leap /\ yday > 31 + 29 - 1 THEN yday - 1 ELSE yday
        m == day \div 31
        end == DaysBefore[m + 2]
    IN  IF leap /\ yday = 31 + 29 - 1
        THEN [year |-> year, month |-> 2, day |-> 29]
        ELSE IF day >= end
             THEN [year |-> year, month |-> m + 2, day |-> day - end + 1]
             ELSE [year |-> year, month |-> m + 1,
                   day |-> day - DaysBefore[m + 1] + 1]

\* Time.Clock
Clock(t) ==
    [hour |-> t.secs \div 3600,
     min |-> (t.secs % 3600) \div 60,
     sec |-> t.secs % 60]

\* the zero Time: January 1, year 1, 00:00:00 UTC
ZeroTime == [days |-> DaysSinceEpoch(1), secs |-> 0, nsec |-> 0]

----------------------------------------------------------------------------
(* Errors: a format and its arguments, as fmt.Errorf builds them *)

Nil == [fmt |-> "nil", args |-> <<>>]

\* io.EOF
EOF == [fmt |-> "EOF", args |-> <<>>]

Errorf(format, args) == [fmt |-> format, args |-> args]

----------------------------------------------------------------------------
(* The month table *)

MonthKeys ==
    << <<"e","n","e">>, <<"f","e","b">>, <<"m","a","r">>, <<"a","b","r">>,
       <<"m","a","y">>, <<"j","u","n">>, <<"j","u","l">>, <<"a","g","o">>,
       <<"s","e","p">>, <<"o","c","t">>, <<"n","o","v">>, <<"d","i","c">> >>

\* a table that maps ago to July
MonthTableAgoJuly ==
    [k \in Range(MonthKeys) |->
        LET i == CHOOSE j \in 1..12 : MonthKeys[j] = k
        IN  IF i = 8 THEN 7 ELSE i]

MonthTable ==
    [k \in Range(MonthKeys) |-> CHOOSE i \in 1..12 : MonthKeys[i] = k]

----------------------------------------------------------------------------
(* The parse functions.  Each takes the reader's text s and the count p of *)
(* runes already consumed, and yields the error, the new count and what it *)
(* writes through its out pointer (meaningful when the error is Nil).      *)

RECURSIVE ReadLoop(_, _, _, _, _)
ReadLoop(s, p, n, i, runes) ==
    IF i >= n
    THEN [err |-> Nil, pos |-> p, out |-> runes]
    ELSE IF p >= Len(s)
         THEN \* ReadRune returns io.EOF
              IF n - 1 = i
              THEN ReadLoop(s, p, n, i + 1, runes)
              ELSE [err |-> EOF, pos |-> p, out |-> <<>>]
         ELSE ReadLoop(s, p + 1, n, i + 1, [runes EXCEPT ![i + 1] = s[p + 1]])

\* a readChars that returns io.EOF on every short read
readCharsStrict(n, s, p) ==
    IF Len(s) - p >= n
    THEN [err |-> Nil, pos |-> p + n, out |-> SubSeq(s, p + 1, p + n)]
    ELSE [err |-> EOF, pos |-> Len(s), out |-> <<>>]

readChars(n, s, p) == ReadLoop(s, p, n, 0, [i \in 1..n |-> NUL])

RECURSIVE DecVal(_)
DecVal(str) ==
    IF str = <<>> THEN 0
    ELSE DecVal(SubSeq(str, 1, Len(str) - 1)) * 10 + DigitVal(str[Len(str)])

\* strconv.Atoi on a short string: an optional sign, then one or more digits
Atoi(str) ==
    LET bad == [err |-> Errorf("strconv.Atoi: parsing %q: invalid syntax", <<str>>),
                n |-> 0]
    IN  IF Len(str) = 0 THEN bad
        ELSE LET body == IF str[1] \in {"-", "+"} THEN Tail(str) ELSE str
             IN  IF Len(body) < 1 \/ \E i \in 1..Len(body) : ~IsDigit(body[i])
                 THEN bad
                 ELSE [err |-> Nil,
                       n |-> IF str[1] = "-" THEN 0 - DecVal(body) ELSE DecVal(body)]

readInt(size, s, p) ==
    LET r == readChars(size, s, p)
    IN  IF r.err # Nil THEN r
        ELSE LET a == Atoi(r.out)
             IN  IF a.err # Nil
                 THEN [err |-> a.err, pos |-> r.pos, out |-> 0]
                 ELSE [err |-> Nil, pos |-> r.pos, out |-> a.n]

\* an expectChars that checks how many runes it read, not which
expectCharsLenOnly(expected, s, p) ==
    LET r == readChars(Len(expected), s, p)
    IN  IF r.err # Nil THEN r
        ELSE IF Len(r.out) # Len(expected)
             THEN [err |-> Errorf("expecting: %s, got: %s", <<expected, r.out>>),
                   pos |-> r.pos, out |-> <<>>]
             ELSE [err |-> Nil, pos |-> r.pos, out |-> <<>>]

expectChars(expected, s, p) ==
    LET r == readChars(Len(expected), s, p)
    IN  IF r.err # Nil THEN r
        ELSE IF r.out # expected
             THEN [err |-> Errorf("expecting: %s, got: %s", <<expected, r.out>>),
                   pos |-> r.pos, out |-> <<>>]
             ELSE [err |-> Nil, pos |-> r.pos, out |-> <<>>]

skipChars(n, s, p) ==
    LET r == readChars(n, s, p)
    IN  [err |-> r.err, pos |-> r.pos, out |-> <<>>]

\* a skipSpaces without the UnreadRune: the rune that ends the run is consumed
RECURSIVE skipSpacesNoUnread(_, _)
skipSpacesNoUnread(s, p) ==
    IF p >= Len(s)
    THEN [err |-> Nil, pos |-> p, out |-> <<>>]
    ELSE IF ~IsSpace(s[p + 1])
         THEN [err |-> Nil, pos |-> p + 1, out |-> <<>>]
         ELSE skipSpacesNoUnread(s, p + 1)

RECURSIVE skipSpaces(_, _)
skipSpaces(s, p) ==
    IF p >= Len(s)
    THEN [err |-> Nil, pos |-> p, out |-> <<>>]
    ELSE IF ~IsSpace(s[p + 1])
         THEN \* UnreadRune puts the rune back
              [err |-> Nil, pos |-> p, out |-> <<>>]
         ELSE skipSpaces(s, p + 1)

----------------------------------------------------------------------------
(* Datetime.UnmarshalJSON *)

GMT == <<"G", "M", "T", "+", "0", "0", "0", "0">>

Expect(lit) == [op |-> "expectChars", n |-> Len(lit), lit |-> lit, out |-> "-"]
Skip(n) == [op |-> "skipChars", n |-> n, lit |-> <<>>, out |-> "-"]
Spaces == [op |-> "skipSpaces", n |-> 0, lit |-> <<>>, out |-> "-"]
IntStep(n, out) == [op |-> "readInt", n |-> n, lit |-> <<>>, out |-> out]
CharsStep(n, out) == [op |-> "readChars", n |-> n, lit |-> <<>>, out |-> out]

Steps ==
    << Expect(<<Quote>>),
       Skip(3),
       Expect(<<",">>),
       Spaces,
       IntStep(2, "day"),
       Spaces,
       CharsStep(3, "mo"),
       Spaces,
       IntStep(4, "y"),
       Spaces,
       IntStep(2, "h"),
       Expect(<<":">>),
       IntStep(2, "m"),
       Expect(<<":">>),
       IntStep(2, "s"),
       Spaces,
       Expect(GMT),
       Expect(<<Quote>>) >>

LookupPC == Len(Steps) + 1
DonePC == Len(Steps) + 2
\* a call slot no decode has been started in
IdlePC == Len(Steps) + 3

Procs == {1, 2}

ZeroLocals == [mo |-> <<>>, day |-> 0, y |-> 0, h |-> 0, m |-> 0, s |-> 0]

\* locals kept in one place for every call, as package-level variables are
LocalsShared(p) == 1

\* mo, day, y, h, m, s are locals of the call
LocalsOf(p) == p

Running(p, op) == pc[p] \in 1..Len(Steps) /\ Steps[pc[p]].op = op

\* the loop over steps: return the wrapped error, or go on to the next step
AfterStep(p, r) ==
    LET st == Steps[pc[p]]
    IN  /\ pos' = [pos EXCEPT ![p] = r.pos]
        /\ IF r.err # Nil
           THEN /\ err' = [err EXCEPT ![p] =
                            Errorf("error parsing date %q: %s", <<b[p], r.err>>)]
                /\ pc' = [pc EXCEPT ![p] = DonePC]
                /\ fld' = fld
           ELSE /\ err' = err
                /\ pc' = [pc EXCEPT ![p] = pc[p] + 1]
                /\ fld' = IF st.out # "-"
                          THEN [fld EXCEPT ![LocalsOf(p)][st.out] = r.out]
                          ELSE fld
        /\ UNCHANGED <<b, d, calls, months, req, resp, fa>>

ExpectCharsStep(p) ==
    /\ Running(p, "expectChars")
    /\ AfterStep(p, expectChars(Steps[pc[p]].lit, b[p], pos[p]))

SkipCharsStep(p) ==
    /\ Running(p, "skipChars")
    /\ AfterStep(p, skipChars(Steps[pc[p]].n, b[p], pos[p]))

SkipSpacesStep(p) ==
    /\ Running(p, "skipSpaces")
    /\ AfterStep(p, skipSpaces(b[p], pos[p]))

ReadIntStep(p) ==
    /\ Running(p, "readInt")
    /\ AfterStep(p, readInt(Steps[pc[p]].n, b[p], pos[p]))

ReadCharsStep(p) ==
    /\ Running(p, "readChars")
    /\ AfterStep(p, readChars(Steps[pc[p]].n, b[p], pos[p]))

\* a lookup that lower-cases the token first
MonthLookupFold(mt, mo) ==
    LET lower(c) == CASE c = "N" -> "n" [] c = "O" -> "o" [] c = "V" -> "v"
                      [] OTHER -> c
        k == [i \in 1..Len(mo) |-> lower(mo[i])]
    IN  IF k \in DOMAIN mt THEN [ok |-> TRUE, month |-> mt[k]]
        ELSE [ok |-> FALSE, month |-> 0]

\* month, ok := months[mo]
MonthLookup(mt, mo) ==
    IF mo \in DOMAIN mt THEN [ok |-> TRUE, month |-> mt[mo]]
    ELSE [ok |-> FALSE, month |-> 0]

\* a tail that assigns d.Time before it tests ok
AfterStepsAssignFirst(f, mt, old) ==
    LET l == MonthLookup(mt, f.mo)
    IN  [time |-> Date(f.y, l.month, f.day, f.h, f.m, f.s, 0),
         err |-> IF l.ok THEN Nil ELSE Errorf("invalid month: %s", <<f.mo>>)]

\* the statements after the loop: the lookup, then the assignment
AfterSteps(f, mt, old) ==
    LET l == MonthLookup(mt, f.mo)
    IN  IF ~l.ok
        THEN [time |-> old, err |-> Errorf("invalid month: %s", <<f.mo>>)]
        ELSE [time |-> Date(f.y, l.month, f.day, f.h, f.m, f.s, 0), err |-> Nil]

Lookup(p) ==
    /\ pc[p] = LookupPC
    /\ LET t == AfterSteps(fld[LocalsOf(p)], months, d[p])
       IN  /\ d' = [d EXCEPT ![p] = t.time]
           /\ err' = [err EXCEPT ![p] = t.err]
    /\ pc' = [pc EXCEPT ![p] = DonePC]
    /\ UNCHANGED <<b, pos, fld, calls, months, req, resp, fa>>

\* r := bufio.NewReader(bytes.NewReader(b)) and the declarations of the
\* locals: a decode of input on the receiver of slot p begins
Call(p, input) ==
    /\ pc[p] = DonePC
    /\ calls[p] < MaxCalls
    /\ b' = [b EXCEPT ![p] = input]
    /\ pos' = [pos EXCEPT ![p] = 0]
    /\ pc' = [pc EXCEPT ![p] = 1]
    /\ fld' = [fld EXCEPT ![LocalsOf(p)] = ZeroLocals]
    /\ err' = [err EXCEPT ![p] = Nil]
    /\ calls' = [calls EXCEPT ![p] = calls[p] + 1]
    /\ UNCHANGED <<d, months, req, resp, fa>>

----------------------------------------------------------------------------
(* The inputs the decoder is run on *)

Dom == <<"d", "o", "m">>
SP == <<" ">>

Mk(wd, s1, dd, mon, yyyy, hh, mm, ss, s2, tz) ==
    <<Quote>> \o wd \o <<",">> \o s1 \o dd \o <<" ">> \o mon \o <<" ">> \o yyyy
        \o <<" ">> \o hh \o <<":">> \o mm \o <<":">> \o ss \o s2 \o tz \o <<Quote>>

\* "dom, 18 nov 2012 23:00:00 GMT+0000"
Canon ==
    Mk(Dom, SP, <<"1","8">>, <<"n","o","v">>, <<"2","0","1","2">>,
       <<"2","3">>, <<"0","0">>, <<"0","0">>, SP, GMT)

\* "lun, 01 ene 2000 00:00:00 GMT+0000"
LunEne2000 ==
    Mk(<<"l","u","n">>, SP, <<"0","1">>, <<"e","n","e">>, <<"2","0","0","0">>,
       <<"0","0">>, <<"0","0">>, <<"0","0">>, SP, GMT)

\* "xxx, 18 foo 2012 23:00:00 GMT+0000"
XxxFoo ==
    Mk(<<"x","x","x">>, SP, <<"1","8">>, <<"f","o","o">>, <<"2","0","1","2">>,
       <<"2","3">>, <<"0","0">>, <<"0","0">>, SP, GMT)

DayTokens ==
    { <<"1","8">>, <<"0","1">>, <<"3","1">>, <<"2","9">>, <<"0","0">>,
      <<"3","2">>, <<"+","8">>, <<"-","1">> }

MonTokens ==
    Range(MonthKeys) \cup { <<"N","O","V">>, <<"N","o","v">>, <<"f","o","o">> }

YearTokens ==
    { <<"2","0","1","2">>, <<"1","9","9","9">>, <<"2","0","0","0">> }

HourTokens == { <<"2","3">>, <<"0","0">>, <<"2","4">>, <<"+","1">> }
MinTokens == { <<"0","0">>, <<"5","9">>, <<"6","0">>, <<"-","5">> }
SecTokens == { <<"0","0">>, <<"5","9">>, <<"6","0">>, <<"7","x">> }

WeekdayTokens ==
    { Dom, <<"x","x","x">>, <<" ", ",", Quote>>, <<"1", ":", "G">> }

SpaceRuns == { <<>>, <<" ">>, <<" ", " ">>, <<"\t">> }

\* runes put in place of one rune of a well-formed input
Alphabet == { "x", "7", " ", ":", ",", "+", "-", Quote, "G", NUL }

Replace(s, i, c) == [s EXCEPT ![i] = c]
Prefix(s, k) == SubSeq(s, 1, k)
\* s with the k runes before its closing quote left out
TruncatedBy(s, k) == SubSeq(s, 1, Len(s) - 1 - k) \o <<Quote>>

DateInputs ==
    { Mk(Dom, SP, dd, mon, yyyy, <<"2","3">>, <<"0","0">>, <<"0","0">>, SP, GMT) :
        dd \in DayTokens, mon \in MonTokens, yyyy \in YearTokens }

TimeInputs ==
    { Mk(Dom, SP, <<"3","1">>, <<"d","i","c">>, <<"1","9","9","9">>, hh, mm, ss, SP, GMT) :
        hh \in HourTokens, mm \in MinTokens, ss \in SecTokens }

WeekdayInputs ==
    { Mk(wd, SP, <<"1","8">>, mon, <<"2","0","1","2">>,
         <<"2","3">>, <<"0","0">>, <<"0","0">>, SP, GMT) :
        wd \in WeekdayTokens, mon \in { <<"e","n","e">>, <<"d","i","c">> } }

SpacedInputs ==
    { Mk(Dom, s1, <<"1","8">>, <<"n","o","v">>, <<"2","0","1","2">>,
         <<"2","3">>, <<"0","0">>, <<"0","0">>, s2, GMT) :
        s1 \in SpaceRuns, s2 \in SpaceRuns }

ReplacedInputs ==
    { Replace(Canon, i, c) : i \in 1..Len(Canon), c \in Alphabet }

CutInputs ==
    { Prefix(w, k) : w \in {Canon, LunEne2000}, k \in 0..Len(Canon) }
        \cup { TruncatedBy(w, k) : w \in {Canon, LunEne2000}, k \in 1..3 }
        \cup { Canon \o <<"x">> }

Inputs ==
    DateInputs \cup TimeInputs \cup WeekdayInputs \cup SpacedInputs
        \cup ReplacedInputs \cup CutInputs \cup {XxxFoo}

\* the inputs of a receiver's later decodes, and of concurrent decodes
AgainInputs ==
    { Canon, LunEne2000, XxxFoo, Prefix(Canon, Len(Canon) - 1),
      Replace(Canon, 11, "O") }

----------------------------------------------------------------------------
(* Specifications of the decoder *)

CliIdle == req = [op |-> "none"] /\ resp = <<>>
FaIdle == fa = [pc |-> "idle"]

\* one receiver, decoded into MaxCalls times
Init ==
    /\ b \in [Procs -> Inputs \cup {<<>>}]
    /\ b[1] \in Inputs /\ b[2] = <<>>
    /\ pos = [p \in Procs |-> 0]
    /\ pc = [p \in Procs |-> IF p = 1 THEN 1 ELSE IdlePC]
    /\ fld = [p \in Procs |-> ZeroLocals]
    /\ err = [p \in Procs |-> Nil]
    /\ d = [p \in Procs |-> ZeroTime]
    /\ calls = [p \in Procs |-> IF p = 1 THEN 1 ELSE 0]
    /\ months = MonthTable
    /\ CliIdle
    /\ FaIdle

Step(p) ==
    \/ ExpectCharsStep(p)
    \/ SkipCharsStep(p)
    \/ SkipSpacesStep(p)
    \/ ReadIntStep(p)
    \/ ReadCharsStep(p)
    \/ Lookup(p)

Next ==
    \E p \in Procs :
        \/ Step(p)
        \/ \E input \in AgainInputs : Call(p, input)

Spec == Init /\ [][Next]_vars

\* two decodes at a time, each on its own receiver and reader
InitConc ==
    /\ b \in [Procs -> AgainInputs]
    /\ pos = [p \in Procs |-> 0]
    /\ pc = [p \in Procs |-> 1]
    /\ fld = [p \in Procs |-> ZeroLocals]
    /\ err = [p \in Procs |-> Nil]
    /\ d = [p \in Procs |-> ZeroTime]
    /\ calls = [p \in Procs |-> 1]
    /\ months = MonthTable
    /\ CliIdle
    /\ FaIdle

SpecConc == InitConc /\ [][Next]_vars

----------------------------------------------------------------------------
(* Vocabulary of the properties: the wire format by position,              *)
(* "<dow>, DD mon YYYY HH:MM:SS GMT+0000", as the catalog emits it          *)

AllDigits(t) == \A i \in 1..Len(t) : IsDigit(t[i])

DayOf(s) == SubSeq(s, 7, 8)
MonOf(s) == SubSeq(s, 10, 12)
YearOf(s) == SubSeq(s, 14, 17)
HourOf(s) == SubSeq(s, 19, 20)
MinOf(s) == SubSeq(s, 22, 23)
SecOf(s) == SubSeq(s, 25, 26)
ZoneOf(s) == SubSeq(s, 28, 35)

\* the single spaces between the fields are where the format puts them
Spacing(s) ==
    /\ Len(s) = 36
    /\ s[6] = " " /\ s[9] = " " /\ s[13] = " " /\ s[18] = " " /\ s[27] = " "

\* and so are the comma and the colons
Layout(s) ==
    /\ Spacing(s)
    /\ s[5] = "," /\ s[21] = ":" /\ s[24] = ":"

\* the five numeric fields are digit strings, the month token has no space
FieldsFilled(s) ==
    /\ AllDigits(DayOf(s)) /\ AllDigits(YearOf(s)) /\ AllDigits(HourOf(s))
    /\ AllDigits(MinOf(s)) /\ AllDigits(SecOf(s))
    /\ \A i \in 10..12 : ~IsSpace(s[i])

\* the literals of the format are in their places
LiteralsMatch(s) ==
    /\ s[1] = Quote /\ s[5] = "," /\ s[21] = ":" /\ s[24] = ":"
    /\ ZoneOf(s) = GMT /\ s[36] = Quote

\* month-of-year of an abbreviation, as the format documents it
MonthOfYear(tok) ==
    CASE tok = <<"e","n","e">> -> 1 [] tok = <<"f","e","b">> -> 2
      [] tok = <<"m","a","r">> -> 3 [] tok = <<"a","b","r">> -> 4
      [] tok = <<"m","a","y">> -> 5 [] tok = <<"j","u","n">> -> 6
      [] tok = <<"j","u","l">> -> 7 [] tok = <<"a","g","o">> -> 8
      [] tok = <<"s","e","p">> -> 9 [] tok = <<"o","c","t">> -> 10
      [] tok = <<"n","o","v">> -> 11 [] tok = <<"d","i","c">> -> 12
      [] OTHER -> 0

DaysIn(month, year) ==
    IF month = 2 THEN (IF IsLeap(year) THEN 29 ELSE 28)
    ELSE IF month \in {4, 6, 9, 11} THEN 30 ELSE 31

WellFormed(s) ==
    /\ Layout(s)
    /\ s[1] = Quote /\ s[36] = Quote
    /\ ZoneOf(s) = GMT
    /\ MonthOfYear(MonOf(s)) # 0
    /\ AllDigits(DayOf(s)) /\ AllDigits(YearOf(s)) /\ AllDigits(HourOf(s))
    /\ AllDigits(MinOf(s)) /\ AllDigits(SecOf(s))
    /\ DecVal(DayOf(s)) >= 1
    /\ DecVal(DayOf(s)) <= DaysIn(MonthOfYear(MonOf(s)), DecVal(YearOf(s)))
    /\ DecVal(HourOf(s)) <= 23 /\ DecVal(MinOf(s)) <= 59 /\ DecVal(SecOf(s)) <= 59

Done(p) == pc[p] = DonePC
Failed(p) == Done(p) /\ err[p] # Nil
Succeeded(p) == Done(p) /\ err[p] = Nil

----------------------------------------------------------------------------
(* Properties of Datetime.UnmarshalJSON *)

\* C1: a well-formed input in calendar range decodes without error to
\* exactly the UTC instant its fields name, with ene..dic as months 1..12,
\* whatever the three weekday runes are.
C1_WellFormedDecodesExactly ==
    \A p \in Procs :
        (Done(p) /\ WellFormed(b[p])) =>
            /\ err[p] = Nil
            /\ AbsDate(d[p]) = [year |-> DecVal(YearOf(b[p])),
                                month |-> MonthOfYear(MonOf(b[p])),
                                day |-> DecVal(DayOf(b[p]))]
            /\ Clock(d[p]) = [hour |-> DecVal(HourOf(b[p])),
                              min |-> DecVal(MinOf(b[p])),
                              sec |-> DecVal(SecOf(b[p]))]
            /\ d[p].nsec = 0

C1_Witness ==
    \E p \in Procs :
        /\ Done(p) /\ WellFormed(b[p])
        /\ MonOf(b[p]) = <<"a","g","o">>
        /\ SubSeq(b[p], 2, 4) = Dom
        /\ AbsDate(d[p]) = [year |-> 1999, month |-> 8, day |-> 31]

\* C2 (as claimed): an input cut short by exactly one rune before the
\* closing quote is accepted, and one cut short by two or more fails.
C2_OneShortAccepted ==
    \A p \in Procs : \A w \in {Canon, LunEne2000} :
        /\ (Done(p) /\ b[p] = TruncatedBy(w, 1)) => err[p] = Nil
        /\ (Done(p) /\ b[p] \in {TruncatedBy(w, 2), TruncatedBy(w, 3)})
                => err[p] # Nil

\* C3 (as claimed): the decode fails whenever a numeric field holds a rune
\* that is not a decimal digit.
C3_NonDigitFails ==
    \A p \in Procs :
        (/\ Done(p)
         /\ Layout(b[p])
         /\ \/ ~AllDigits(DayOf(b[p])) \/ ~AllDigits(YearOf(b[p]))
            \/ ~AllDigits(HourOf(b[p])) \/ ~AllDigits(MinOf(b[p]))
            \/ ~AllDigits(SecOf(b[p])))
        => err[p] # Nil

\* the runes an expectChars of n runes finds at the cursor
Peek(s, p, n) == SubSeq(s, p + 1, IF p + n <= Len(s) THEN p + n ELSE Len(s))

\* C4: whenever the runes at a literal's place (a quote, the comma, a colon,
\* the time zone) are not the literal, the decode returns an error: in the
\* step that expects the literal, and so for every input that is laid out
\* as the format but for a literal.
C4_LiteralMismatchFails ==
    /\ [][\A p \in Procs :
            (/\ Running(p, "expectChars")
             /\ Peek(b[p], pos[p], Steps[pc[p]].n) # Steps[pc[p]].lit
             /\ pc'[p] # pc[p])
            => (pc'[p] = DonePC /\ err'[p] # Nil /\ d'[p] = d[p])]_vars
    /\ [](\A p \in Procs :
            (/\ Done(p)
             /\ Spacing(b[p]) /\ FieldsFilled(b[p])
             /\ ~LiteralsMatch(b[p]))
            => err[p] # Nil)

C4_Witness ==
    \E p \in Procs :
        /\ Failed(p)
        /\ err[p].fmt = "error parsing date %q: %s"
        /\ err[p].args[2].fmt = "expecting: %s, got: %s"
        /\ err[p].args[2].args[1] = GMT
        /\ Spacing(b[p]) /\ FieldsFilled(b[p])

\* C5: when the 18 steps succeed and the month token is not one of the 12
\* lower-case keys, the decode fails with an invalid-month error that names
\* the token, and the receiver is left alone.
C5_UnknownMonthFails ==
    /\ [][\A p \in Procs :
            (/\ pc[p] = LookupPC
             /\ pc'[p] = DonePC
             /\ MonthOfYear(fld[p].mo) = 0)
            => (/\ err'[p] = Errorf("invalid month: %s", <<fld[p].mo>>)
                /\ d'[p] = d[p])]_vars
    /\ [](\A p \in Procs :
            (/\ Done(p)
             /\ Layout(b[p]) /\ FieldsFilled(b[p]) /\ LiteralsMatch(b[p])
             /\ MonthOfYear(MonOf(b[p])) = 0)
            => err[p] = Errorf("invalid month: %s", <<MonOf(b[p])>>))

C5_Witness ==
    \E p \in Procs :
        /\ Failed(p)
        /\ Layout(b[p])
        /\ MonOf(b[p]) = <<"N","O","V">>
        /\ err[p] = Errorf("invalid month: %s", << <<"N","O","V">> >>)

\* C6: a decode that returns an error leaves the receiver as it was; the
\* receiver changes only in the step that returns success.
C6_FailureKeepsReceiver ==
    [][\A p \in Procs :
        /\ (pc'[p] = DonePC /\ err'[p] # Nil) => d'[p] = d[p]
        /\ d'[p] # d[p] => (pc[p] = LookupPC /\ pc'[p] = DonePC /\ err'[p] = Nil)
      ]_vars

C6_Witness ==
    \E p \in Procs :
        /\ Failed(p)
        /\ err[p].fmt = "invalid month: %s"
        /\ calls[p] > 1
        /\ d[p] # ZeroTime

\* C7 (as claimed): every error returned wraps the first failure together
\* with the raw input.
C7_EveryFailureWrapsInput ==
    \A p \in Procs :
        Failed(p) =>
            /\ err[p].fmt = "error parsing date %q: %s"
            /\ err[p].args[1] = b[p]

SameOutcome(p, q) ==
    /\ err[p] = err[q]
    /\ err[p] = Nil => d[p] = d[q]

\* C8: decodes of the same input end in the same outcome, whatever was
\* decoded before on either receiver and however the steps of the two calls
\* interleave; the month table is never written.
C8_OutcomeDependsOnInputOnly ==
    /\ [](\A p \in Procs : \A q \in Procs :
            (Done(p) /\ Done(q) /\ b[p] = b[q]) => SameOutcome(p, q))
    /\ [][months' = months]_vars

C8_Witness ==
    \E p \in Procs : \E q \in Procs :
        /\ p # q
        /\ Done(p) /\ Done(q)
        /\ b[p] = b[q]
        /\ calls[p] > calls[q]
        /\ err[p] = Nil
        /\ d[p] # ZeroTime

----------------------------------------------------------------------------
(* Properties of the parse functions, seen at the steps that run them *)

\* runes left in the reader of call p
Remaining(p) == Len(b[p]) - pos[p]

WrappedEOF(p) == Errorf("error parsing date %q: %s", <<b[p], EOF>>)

\* C11: what readChars(n) does is decided by how many runes remain.  With
\* n or more it succeeds and consumes exactly n; with exactly n - 1 it
\* succeeds too, the cursor left at the end of the input; with fewer it
\* fails with io.EOF and nothing is written through out.  expectChars and
\* readInt read through readChars, so they consume alike and return io.EOF
\* in the last case only.
C11_ReadCharsByRemaining ==
    [][\A p \in Procs :
        (pc[p] \in 1..Len(Steps) /\ Steps[pc[p]].op # "skipSpaces"
            /\ pc'[p] # pc[p]) =>
            LET st == Steps[pc[p]]
                n == st.n
                direct == st.op \in {"readChars", "skipChars"}
                read == SubSeq(b[p], pos[p] + 1, pos'[p])
            IN  /\ Remaining(p) >= n =>
                    /\ pos'[p] = pos[p] + n
                    /\ err'[p] # WrappedEOF(p)
                    /\ direct => (pc'[p] = pc[p] + 1 /\ err'[p] = Nil)
                    /\ st.op = "readChars" => fld'[p][st.out] = read
                /\ Remaining(p) = n - 1 =>
                    /\ pos'[p] = Len(b[p])
                    /\ err'[p] # WrappedEOF(p)
                    /\ direct => (pc'[p] = pc[p] + 1 /\ err'[p] = Nil)
                    /\ st.op = "readChars" => fld'[p][st.out] = read \o <<NUL>>
                /\ Remaining(p) < n - 1 =>
                    /\ pc'[p] = DonePC
                    /\ err'[p] = WrappedEOF(p)
                    /\ fld'[p] = fld[p]
      ]_vars

\* the month token read one rune short: "dom, 18 no
C11_Witness ==
    \E p \in Procs :
        /\ b[p] = Prefix(Canon, 11)
        /\ pc[p] = 8
        /\ pos[p] = Len(b[p])
        /\ fld[p].mo = <<"n", "o", NUL>>
        /\ err[p] = Nil

\* C12: skipSpaces fails at no position, the end of the input included.
\* It consumes the longest run of whitespace at the cursor, which may be
\* empty, and nothing else: the cursor is left on the first rune that is not
\* whitespace, or at the end of the input.
C12_SkipSpacesMaximalRun ==
    [][\A p \in Procs :
        (Running(p, "skipSpaces") /\ pc'[p] # pc[p]) =>
            /\ pc'[p] = pc[p] + 1
            /\ err'[p] = Nil
            /\ pos'[p] \in pos[p]..Len(b[p])
            /\ \A i \in (pos[p] + 1)..pos'[p] : IsSpace(b[p][i])
            /\ pos'[p] = Len(b[p]) \/ ~IsSpace(b[p][pos'[p] + 1])
            /\ fld'[p] = fld[p]
      ]_vars

\* whitespace up to the end of the input: "dom,_
C12_Witness ==
    \E p \in Procs :
        /\ b[p] = Prefix(Canon, 6)
        /\ pc[p] = 5
        /\ pos[p] = Len(b[p])
        /\ err[p] = Nil

\* C13 (as claimed): a decode that succeeds yields the instant with exactly
\* the year, month, day, hour, minute and second its fields spell; no input
\* with a field out of calendar range (day 00 or past the month's length,
\* hour 24 or more, minute or second 60 or more) is accepted and normalised.
C13_FieldsDecodedAsRead ==
    \A p \in Procs :
        (Succeeded(p) /\ Layout(b[p]) /\ FieldsFilled(b[p])) =>
            /\ AbsDate(d[p]) = [year |-> DecVal(YearOf(b[p])),
                                month |-> MonthOfYear(MonOf(b[p])),
                                day |-> DecVal(DayOf(b[p]))]
            /\ Clock(d[p]) = [hour |-> DecVal(HourOf(b[p])),
                              min |-> DecVal(MinOf(b[p])),
                              sec |-> DecVal(SecOf(b[p]))]

----------------------------------------------------------------------------
(* The catalog client *)

\* number of pages a caller asks the catalog for
MaxPages == 3

\* the page size findAllDatasets asks for
PageSize == 100

baseURL == "https://datos.gob.es/apidata"

\* url.PathEscape of one rune: letters, digits and -_.~$&+=:@ stay, the
\* rest becomes %XX
EscapeRune(c) ==
    CASE c = " " -> <<"%", "2", "0">>
      [] c = "/" -> <<"%", "2", "F">>
      [] c = "?" -> <<"%", "3", "F">>
      [] c = "," -> <<"%", "2", "C">>
      [] c = ";" -> <<"%", "3", "B">>
      [] c = "%" -> <<"%", "2", "5">>
      [] OTHER -> <<c>>

RECURSIVE PathEscape(_)
PathEscape(str) ==
    IF str = <<>> THEN <<>>
    ELSE EscapeRune(Head(str)) \o PathEscape(Tail(str))

\* Params{Sort, Page, PageSize}
ParamsSet ==
    [Sort : {"", "-issued"}, Page : 0..(MaxPages - 1), PageSize : {0, 10, PageSize}]

RECURSIVE Join(_, _)
Join(parts, sep) ==
    IF parts = <<>> THEN <<>>
    ELSE IF Len(parts) = 1 THEN parts[1]
    ELSE parts[1] \o <<sep>> \o Join(Tail(parts), sep)

makeURL(path, params) ==
    LET sort == IF params.Sort # "" THEN << <<"_sort=", params.Sort>> >> ELSE <<>>
        page == IF params.Page > 0
                THEN << <<"_page=", ToString(params.Page)>> >> ELSE <<>>
        size == IF params.PageSize > 0
                THEN << <<"_pageSize=", ToString(params.PageSize)>> >> ELSE <<>>
    IN  <<baseURL>> \o path \o <<"?">> \o Join(sort \o page \o size, "&")

\* 2012-11-18 23:00:00 UTC
Issued2012 == Date(2012, 11, 18, 23, 0, 0, 0)

Csv == <<"c", "s", "v">>
Tur == <<"t", "u", "r">>

Dist(mime, url) == [Format |-> mime, AccessURL |-> url]

DS(id, title, keywords, dist) ==
    [Identifier |-> id, Title |-> title, Keywords |-> keywords,
     Distribution |-> dist, Issued |-> Issued2012]

\* the datasets the catalog holds
Catalog ==
    << DS(<<"d", "1">>, << <<"o", "n", "e">> >>, {Tur}, <<Dist("text/csv", "u1")>>),
       DS(<<"d", "2">>, << <<"t", "w", "o">> >>, {Csv, Tur},
          <<Dist("application/json", "u2")>>),
       DS(<<"d", "3">>, << <<"a", " ", "b">> >>, {<<"a", " ", "b">>, <<"a", "/", "b">>},
          <<Dist("application/pdf", "u3"), Dist("text/csv", "u4")>>) >>

\* the format names of the catalog's format endpoint
MimeOf(name) ==
    CASE name = Csv -> "text/csv"
      [] name = <<"j", "s", "o", "n">> -> "application/json"
      [] OTHER -> "none"

\* what the catalog answers on a dataset endpoint, as the client's tests
\* expect it: /format/<f> the datasets with a distribution of that format,
\* /keyword/<k> those with that keyword, /title/<t> those with that title
Serve(path) ==
    LET seg == Tail(path)
        Match(ds) ==
            CASE path = <<"/catalog/dataset">> -> TRUE
              [] path[1] = "/catalog/dataset/format/" ->
                    \E i \in 1..Len(ds.Distribution) : \E n \in {Csv, <<"j", "s", "o", "n">>} :
                        PathEscape(n) = seg /\ ds.Distribution[i].Format = MimeOf(n)
              [] path[1] = "/catalog/dataset/keyword/" ->
                    \E k \in ds.Keywords : PathEscape(k) = seg
              [] path[1] = "/catalog/dataset/title/" ->
                    \E i \in 1..Len(ds.Title) : PathEscape(ds.Title[i]) = seg
              [] OTHER -> FALSE
    IN  SelectSeq(Catalog, Match)

\* Client.get: the request goes out; the items come back unless the
\* transport or the decoding failed
get(path, params, ok) ==
    [url |-> makeURL(path, params),
     failed |-> ~ok,
     items |-> IF ok THEN Serve(path) ELSE <<>>]

Request(op, arg, path, r) ==
    [op |-> op, arg |-> arg, path |-> path, url |-> r.url, failed |-> r.failed]

cliFrame == <<b, pos, pc, fld, err, d, calls, months, fa>>

Datasets(params, ok) ==
    LET path == <<"/catalog/dataset">>
        r == get(path, params, ok)
    IN  /\ req' = Request("Datasets", <<>>, path, r)
        /\ resp' = r.items
        /\ UNCHANGED cliFrame

DatasetsByTitle(title, params, ok) ==
    LET path == <<"/catalog/dataset/title/">> \o PathEscape(title)
        r == get(path, params, ok)
    IN  /\ req' = Request("DatasetsByTitle", title, path, r)
        /\ resp' = r.items
        /\ UNCHANGED cliFrame

DatasetsByPublisher(publisherID, params, ok) ==
    LET path == <<"/catalog/dataset/publisher/">> \o PathEscape(publisherID)
        r == get(path, params, ok)
    IN  /\ req' = Request("DatasetsByPublisher", publisherID, path, r)
        /\ resp' = r.items
        /\ UNCHANGED cliFrame

DatasetsByTheme(themeID, params, ok) ==
    LET path == <<"/catalog/dataset/theme/">> \o PathEscape(themeID)
        r == get(path, params, ok)
    IN  /\ req' = Request("DatasetsByTheme", themeID, path, r)
        /\ resp' = r.items
        /\ UNCHANGED cliFrame

DatasetsByFormat(format, params, ok) ==
    LET path == <<"/catalog/dataset/format/">> \o PathEscape(format)
        r == get(path, params, ok)
    IN  /\ req' = Request("DatasetsByFormat", format, path, r)
        /\ resp' = r.items
        /\ UNCHANGED cliFrame

DatasetsByKeyword(keyword, params, ok) ==
    LET path == <<"/catalog/dataset/format/">> \o PathEscape(keyword)
        r == get(path, params, ok)
    IN  /\ req' = Request("DatasetsByKeyword", keyword, path, r)
        /\ resp' = r.items
        /\ UNCHANGED cliFrame

\* the arguments the client's methods are called with
ClientArgs == { Csv, Tur, <<"a", " ", "b">>, <<"a", "/", "b">> }

DecIdle ==
    /\ b = [p \in Procs |-> <<>>]
    /\ pos = [p \in Procs |-> 0]
    /\ pc = [p \in Procs |-> IdlePC]
    /\ fld = [p \in Procs |-> ZeroLocals]
    /\ err = [p \in Procs |-> Nil]
    /\ d = [p \in Procs |-> ZeroTime]
    /\ calls = [p \in Procs |-> 0]
    /\ months = MonthTable

InitClient == DecIdle /\ CliIdle /\ FaIdle

NextClient ==
    \E params \in ParamsSet : \E ok \in BOOLEAN :
        \/ Datasets(params, ok)
        \/ \E arg \in ClientArgs :
            \/ DatasetsByTitle(arg, params, ok)
            \/ DatasetsByPublisher(arg, params, ok)
            \/ DatasetsByTheme(arg, params, ok)
            \/ DatasetsByFormat(arg, params, ok)
            \/ DatasetsByKeyword(arg, params, ok)

SpecClient == InitClient /\ [][NextClient]_vars

\* C9 (as claimed): DatasetsByKeyword asks the keyword endpoint for the
\* escaped keyword, a path other than the one DatasetsByFormat asks for, and
\* every dataset it returns has the keyword.
C9_KeywordEndpoint ==
    req.op = "DatasetsByKeyword" =>
        /\ req.path = <<"/catalog/dataset/keyword/">> \o PathEscape(req.arg)
        /\ req.path # <<"/catalog/dataset/format/">> \o PathEscape(req.arg)
        /\ \A i \in 1..Len(resp) : req.arg \in resp[i].Keywords

----------------------------------------------------------------------------
(* cmd/datos: findAllDatasets *)

\* largest small value of the -n flag
MaxNum == 3

Letters ==
    { "a", "b", "c", "d", "e", "f", "g", "h", "i", "j", "k", "l", "m", "n",
      "o", "p", "q", "r", "s", "t", "u", "v", "w", "x", "y", "z" }

\* unicode.IsLetter(r) || unicode.IsDigit(r) || r == '_' || r == '-'
IsSlugRune(c) == c \in Letters \/ IsDigit(c) \/ c = "_" \/ c = "-"

\* Time.Unix
Unix(t) == (t.days - Date(1970, 1, 1, 0, 0, 0, 0).days) * (24 * 3600) + t.secs

\* strings.LastIndex(name, "/"), counted from 1; 0 when there is none
LastSlash(name) ==
    IF \E i \in 1..Len(name) : name[i] = "/"
    THEN CHOOSE i \in 1..Len(name) :
            name[i] = "/" /\ \A j \in (i + 1)..Len(name) : name[j] # "/"
    ELSE 0

RECURSIVE SlugLoop(_, _, _)
SlugLoop(name, k, result) ==
    IF k > Len(name) THEN result
    ELSE LET last == IF result = <<>> THEN NUL ELSE result[Len(result)]
         IN  IF IsSlugRune(name[k])
             THEN SlugLoop(name, k + 1, Append(result, name[k]))
             ELSE IF last # "-"
                  THEN SlugLoop(name, k + 1, Append(result, "-"))
                  ELSE SlugLoop(name, k + 1, result)

slugify(name, issued) ==
    LET i == LastSlash(name)
        cut == IF i > 0 THEN SubSeq(name, i, Len(name)) ELSE name
    IN  SlugLoop(cut, 1, <<>>) \o <<"-", ToString(Unix(issued))>>

\* var formats: the MIME type of a -format value, "" when it has none
formats(flag) ==
    CASE flag = "csv" -> "text/csv"
      [] flag = "json" -> "application/json"
      [] flag = "xml" -> "application/xml"
      [] OTHER -> ""

\* strings.ToLower on the flag values the model uses
ToLower(flag) == CASE flag = "CSV" -> "csv" [] OTHER -> flag

allowedFormats(mime) ==
    mime \in {"text/csv", "application/json", "application/xml"}

\* the loop over ds.Distribution: the access URL of the first distribution
\* that suits, "" when none does
RECURSIVE FindURL(_, _, _)
FindURL(dist, k, format) ==
    IF k > Len(dist) THEN ""
    ELSE IF format = "" /\ allowedFormats(dist[k].Format) THEN dist[k].AccessURL
    ELSE IF dist[k].Format = format THEN dist[k].AccessURL
    ELSE FindURL(dist, k + 1, format)

\* the body of the loop over the datasets of a page, for one dataset: acc
\* is the result so far and whether the function has returned
LoopBody(ds, acc, max, format, verbose) ==
    LET url == FindURL(ds.Distribution, 1, format)
        title == IF Len(ds.Title) > 0 THEN ds.Title[1] ELSE <<>>
        id == IF ds.Identifier = <<>> /\ Len(ds.Title) > 0
              THEN ds.Title[1] ELSE ds.Identifier
    IN  IF ds.Identifier = <<>> /\ verbose THEN acc
        ELSE IF url = "" /\ verbose THEN acc
        ELSE LET r2 == Append(acc.result,
                              [url |-> url, title |-> title,
                               id |-> slugify(id, ds.Issued)])
             IN  [result |-> r2, returned |-> Len(r2) >= max]

\* the loop over datasets[lo..hi], in order, stopping once it has returned
\* (the range is halved only to keep the evaluation shallow)
RECURSIVE ProcessRange(_, _, _, _, _, _, _)
ProcessRange(datasets, lo, hi, acc, max, format, verbose) ==
    IF acc.returned \/ lo > hi THEN acc
    ELSE IF lo = hi THEN LoopBody(datasets[lo], acc, max, format, verbose)
    ELSE LET mid == (lo + hi) \div 2
             left == ProcessRange(datasets, lo, mid, acc, max, format, verbose)
         IN  ProcessRange(datasets, mid + 1, hi, left, max, format, verbose)

ProcessPage(datasets, result, max, format, verbose) ==
    ProcessRange(datasets, 1, Len(datasets),
                 [result |-> result, returned |-> FALSE], max, format, verbose)

\* the datasets f's pages are made of
KGood == DS(<<"d", "1">>, << <<"o", "n", "e">> >>, {Tur}, <<Dist("text/csv", "u1")>>)
KNoId == DS(<<>>, << <<"a", " ", "b">> >>, {}, <<Dist("application/json", "u2")>>)
KNoDist == DS(<<"x", "/", "y">>, <<>>, {}, <<Dist("application/pdf", "u3")>>)
KNoIdNoTitle == DS(<<>>, <<>>, {}, <<Dist("application/pdf", "u4"), Dist("application/xml", "u5")>>)
KEmptyURL == DS(<<"d", "4">>, << <<"f", "o", "u", "r">> >>, {}, <<Dist("text/csv", "")>>)

Kinds == {KGood, KNoId, KNoDist, KNoIdNoTitle, KEmptyURL}

FullPages ==
    { [i \in 1..PageSize |-> k] : k \in Kinds }
        \cup { [i \in 1..PageSize |-> IF i % 2 = 1 THEN KNoId ELSE KGood] }

ShortPages ==
    { <<>> } \cup { <<k>> : k \in Kinds } \cup { <<k1, k2>> : k1 \in Kinds, k2 \in Kinds }

FormatFlags == {"", "csv", "CSV", "json", "pdf"}

\* values of the -n flag
NumFlags == 0..MaxNum \cup {2 * PageSize + 1}

\* findAllDatasets(f, int(num), formats[strings.ToLower(format)]) is entered
InitFind ==
    /\ DecIdle
    /\ CliIdle
    /\ \E num \in NumFlags : \E flag \in FormatFlags : \E verbose \in BOOLEAN :
        fa = [pc |-> "loop", max |-> num, format |-> formats(ToLower(flag)),
              verbose |-> verbose, page |-> 0, result |-> <<>>, err |-> "nil",
              asked |-> <<>>, got |-> <<>>]

findFrame == <<b, pos, pc, fld, err, d, calls, months, req, resp>>

Asking == fa.pc = "loop" /\ fa.page < MaxPages

\* f(params) returns an error
FindPageFails ==
    /\ Asking
    /\ fa' = [fa EXCEPT !.pc = "done", !.result = <<>>, !.err = "f failed",
                        !.asked = Append(@, [Page |-> fa.page, PageSize |-> PageSize]),
                        !.got = Append(@, [err |-> "f failed", len |-> 0])]
    /\ UNCHANGED findFrame

\* f(params) returns a page: one turn of the loop
FindPage(datasets) ==
    /\ Asking
    /\ LET r == ProcessPage(datasets, fa.result, fa.max, fa.format, fa.verbose)
           asked == Append(fa.asked, [Page |-> fa.page, PageSize |-> PageSize])
           got == Append(fa.got, [err |-> "nil", len |-> Len(datasets)])
       IN  IF r.returned \/ Len(datasets) < PageSize
           THEN fa' = [fa EXCEPT !.pc = "done", !.result = r.result,
                                 !.asked = asked, !.got = got]
           ELSE fa' = [fa EXCEPT !.page = fa.page + 1, !.result = r.result,
                                 !.asked = asked, !.got = got]
    /\ UNCHANGED findFrame

NextFind ==
    \/ FindPageFails
    \/ \E datasets \in FullPages \cup ShortPages : FindPage(datasets)

SpecFind == InitFind /\ [][NextFind]_vars

\* C10 (as claimed): for every max >= 0, the default 0 included,
\* findAllDatasets returns at most max datasets.
C10_AtMostMax ==
    fa.pc = "done" => Len(fa.result) <= fa.max

\* the params of the k-th call of f, and what it returned
FullPage(g) == g.err = "nil" /\ g.len = PageSize
ShortPage(g) == g.err = "nil" /\ g.len < PageSize
FailedPage(g) == g.err # "nil"

\* what holds of the pages asked for so far and of what they returned
PagesInOrder ==
    /\ Len(fa.got) = Len(fa.asked)
    /\ \A k \in 1..Len(fa.asked) :
          fa.asked[k] = [Page |-> k - 1, PageSize |-> 100]
    /\ \A k \in 1..Len(fa.got) :
          (FailedPage(fa.got[k]) \/ ShortPage(fa.got[k])) =>
              (k = Len(fa.got) /\ fa.pc = "done")
    /\ (Len(fa.got) > 0 /\ FailedPage(fa.got[Len(fa.got)])) =>
          (fa.result = <<>> /\ fa.err = "f failed")
    /\ (Len(fa.got) > 0 /\ Len(fa.result) >= fa.max) => fa.pc = "done"
    /\ fa.pc = "done" =>
          /\ Len(fa.got) > 0
          /\ \/ FailedPage(fa.got[Len(fa.got)])
             \/ ShortPage(fa.got[Len(fa.got)])
             \/ Len(fa.result) >= fa.max

\* a page is asked for only while nothing has ended the call
AskedWhileOpen ==
    fa'.asked # fa.asked =>
        /\ fa.pc = "loop"
        /\ \A k \in 1..Len(fa.got) : FullPage(fa.got[k])
        /\ Len(fa.result) < fa.max
        /\ fa'.asked = Append(fa.asked, [Page |-> Len(fa.asked), PageSize |-> 100])

\* C14 (as claimed): f is asked for pages 0, 1, 2, ... in this order, each
\* once, with page size 100.  The call stops at the first page request that
\* fails (returning no datasets and the error), at the result reaching max
\* entries, or at the first page of fewer than 100 datasets, whichever comes
\* first: no page is asked for once one of these holds, and a short page
\* ends the call.
C14_PagesInOrderUntilStop ==
    /\ []PagesInOrder
    /\ [][AskedWhileOpen]_vars

\* a distribution in the requested format, or in an allowed one when no
\* format is requested
Suits(dist, format) ==
    IF format = "" THEN allowedFormats(dist.Format) ELSE dist.Format = format

\* C15 (as claimed): every dataset of the result has a download URL that is
\* not empty and is the access URL of one of its distributions that suits,
\* and comes from a dataset whose identifier is not empty; datasets without
\* a suitable distribution or without an identifier are left out, with the
\* verbose flag set or not.
C15_ResultSuitableAndIdentified ==
    \A i \in 1..Len(fa.result) :
        /\ fa.result[i].url # ""
        /\ \E ds \in Kinds :
              /\ ds.Identifier # <<>>
              /\ fa.result[i].id = slugify(ds.Identifier, ds.Issued)
              /\ \E k \in 1..Len(ds.Distribution) :
                    /\ Suits(ds.Distribution[k], fa.format)
                    /\ fa.result[i].url = ds.Distribution[k].AccessURL

====
